---------------------------- MODULE Spec2Model ----------------------------
(***************************************************************************)
(* Model of the rigid-body collision core of vigilant-steel                *)
(* (src/src/physics.rs): the integration system SysSimu, the collision     *)
(* system SysCollision with its resolver handle_collision, the tree        *)
(* queries find_collision_tree / _box / _ray, affect_area and              *)
(* delete_entity.                                                          *)
(*                                                                         *)
(* Numbers.  The program computes in f32.  Finite values are modelled as   *)
(* rationals <<n, d>> (d > 0, lowest terms), exact up to the denominator   *)
(* Precision and rounded beyond it; the raycast, whose divisions are       *)
(* unguarded, is computed over the extended values of IEEE 754 (finite,    *)
(* +inf, -inf, NaN).                                                       *)
(*                                                                         *)
(* Headings.  The collision pass never writes Position.rot, and the        *)
(* worlds it is run on here have every heading at 0, where sin_cos is      *)
(* (0, 1) and sat::find sees axis-aligned boxes.  Headings other than 0    *)
(* occur under SysSimu only, which is run on its own.                      *)
(***************************************************************************)
EXTENDS Integers, Sequences, FiniteSets, TLC

VARIABLES
    role,        \* crate::Role of the process
    network,     \* cfg(feature = "network") of the build
    alive,       \* Entities: the live entity handles
    comp,        \* per entity: Blocky, DetectCollision, replicated flag
    pos,         \* WriteStorage<Position>
    vel,         \* WriteStorage<Velocity>
    hits,        \* WriteStorage<Hits>: per entity the hits_vec (<<>>: no component)
    lazy,        \* LazyUpdate: queued deferred operations
    netDirty,    \* entities carrying net::Dirty (after the queue is flushed)
    netDelete,   \* entities carrying net::Delete (after the queue is flushed)
    pc,          \* position inside SysCollision::run ("idle" between systems)
    block_hits,  \* SysCollision::run's local block_hits still to resolve
    log,         \* history of the current pass: pairs tested, contacts resolved
    prevLog,     \* history of the pass before it
    clock,       \* logical time: a tick per pass, affect_area call, SysSimu step
    passClock,   \* clock value of the running (or last) collision pass
    passes,      \* collision passes started
    affects,     \* affect_area calls made
    deletes,     \* delete_entity calls made
    start,       \* Position/Velocity storages and net::Dirty marks when the pass began
    prev,        \* the storages as they were before the last operation
    last,        \* what the last operation was, and on what
    ray,         \* arguments of the last find_collision_tree_ray call
    rayRes,      \* its result
    input,       \* the Input resource
    inputLog,    \* the Input before the last operation on it, and the operation
    previous,    \* server main: the clock reading of the frame before (ms)
    timer,       \* server main: the time accumulator (s)
    frame        \* server main: what the last frame of the loop did

worldVars == <<role, network, alive, comp, pos, vel, hits, lazy, netDirty,
               netDelete, pc, block_hits, log, prevLog, clock, passClock,
               passes, affects, deletes, start, prev, last>>
rayVars == <<ray, rayRes>>
inputVars == <<input, inputLog>>
serverVars == <<previous, timer, frame>>
vars == <<worldVars, rayVars, inputVars, serverVars>>

-----------------------------------------------------------------------------
(* Exact rationals                                                          *)

Abs(x) == IF x < 0 THEN -x ELSE x

RECURSIVE GCD(_, _)
GCD(a, b) == IF b = 0 THEN a ELSE GCD(b, a % b)

(* denominators above Precision are rounded away *)
Precision == 1000

Sgn(d) == IF d < 0 THEN -1 ELSE 1
Reduce(n, d, g) == <<Sgn(d) * (n \div g), Sgn(d) * (d \div g)>>

(* n/d in lowest terms with d > 0 *)
Lowest(n, d) == Reduce(n, d, GCD(Abs(n), Abs(d)))

(* the value kept for q: exact while its denominator is at most          *)
(* Precision, else the nearest multiple of 1/Precision (the model's      *)
(* rounding, where f32 rounds to 24 bits)                                *)
Round(q) ==
    IF q[2] <= Precision THEN q
    ELSE Lowest((q[1] \div q[2]) * Precision
                  + ((q[1] % q[2]) * Precision + q[2] \div 2) \div q[2],
                Precision)

Norm(n, d) == Round(Lowest(n, d))

R(n, d) == Norm(n, d)
I(n) == <<n, 1>>
R0 == <<0, 1>>
R1 == <<1, 1>>

RAdd(a, b) == Norm(a[1] * b[2] + b[1] * a[2], a[2] * b[2])
RNeg(a) == <<-a[1], a[2]>>
RSub(a, b) == RAdd(a, RNeg(b))
RMul(a, b) == Norm(a[1] * b[1], a[2] * b[2])
RDiv(a, b) == Norm(a[1] * b[2], a[2] * b[1])
RLt(a, b) == a[1] * b[2] < b[1] * a[2]
RLe(a, b) == a[1] * b[2] <= b[1] * a[2]
RMin(a, b) == IF RLt(b, a) THEN b ELSE a
RMax(a, b) == IF RLt(a, b) THEN b ELSE a

(* f32::sqrt, to two decimals (rounded down): the integer square root   *)
(* of floor(10000 * a), by bisection                                     *)
RECURSIVE Bisect(_, _, _)
Bisect(n, lo, hi) ==
    IF hi - lo <= 1 THEN lo
    ELSE LET mid == (lo + hi) \div 2
         IN  IF mid * mid <= n THEN Bisect(n, mid, hi) ELSE Bisect(n, lo, mid)
RSqrt(a) ==
    LET w == a[1] \div a[2]
        f == IF a[2] < 100000 THEN ((a[1] % a[2]) * 10000) \div a[2]
             ELSE (((a[1] % a[2]) \div 1000) * 10000) \div (a[2] \div 1000)
    IN  R(Bisect(w * 10000 + f, 0, 40000), 100)

(* vecmath *)
vec2_add(a, b) == <<RAdd(a[1], b[1]), RAdd(a[2], b[2])>>
vec2_sub(a, b) == <<RSub(a[1], b[1]), RSub(a[2], b[2])>>
vec2_scale(a, s) == <<RMul(a[1], s), RMul(a[2], s)>>
vec2_dot(a, b) == RAdd(RMul(a[1], b[1]), RMul(a[2], b[2]))
vec2_square_len(a) == vec2_dot(a, a)
vec2_len(a) == RSqrt(vec2_square_len(a))
V(x, y) == <<x, y>>
VI(x, y) == <<I(x), I(y)>>

-----------------------------------------------------------------------------
(* f32 with its non-finite values, as the raycast needs them                *)

Fin(r) == [k |-> "num", v |-> r]
PInf == [k |-> "inf", v |-> R1]
NInf == [k |-> "inf", v |-> <<-1, 1>>]
NaN == [k |-> "nan", v |-> R0]
IsFinite(x) == x.k = "num"

(* a / b on finite operands: IEEE 754 gives +-inf for x/0 and NaN for 0/0 *)
FDiv(a, b) ==
    IF b # R0 THEN Fin(RDiv(a, b))
    ELSE IF RLt(R0, a) THEN PInf
    ELSE IF RLt(a, R0) THEN NInf
    ELSE NaN

(* finite d times t: 0 * inf is NaN *)
FMul(d, t) ==
    CASE t.k = "num" -> Fin(RMul(d, t.v))
      [] t.k = "nan" -> NaN
      [] OTHER -> IF d = R0 THEN NaN
                  ELSE IF RLt(R0, d) = (t.v = R1) THEN PInf ELSE NInf

(* finite p plus x *)
FAdd(p, x) == IF x.k = "num" THEN Fin(RAdd(p, x.v)) ELSE x

(* comparisons: every comparison with NaN is false *)
FLt(a, b) ==
    CASE a.k = "nan" \/ b.k = "nan" -> FALSE
      [] a.k = "num" /\ b.k = "num" -> RLt(a.v, b.v)
      [] a.k = "inf" /\ b.k = "inf" -> RLt(a.v, b.v)
      [] a.k = "inf" -> a.v = <<-1, 1>>
      [] OTHER -> b.v = R1
FLe(a, b) == a.k # "nan" /\ b.k # "nan" /\ ~FLt(b, a)
FMin(a, b) ==
    IF a.k = "nan" THEN b ELSE IF b.k = "nan" THEN a
    ELSE IF FLt(b, a) THEN b ELSE a

-----------------------------------------------------------------------------
(* AABox and the spatial tree of a composite shape                          *)

Half == R(1, 2)

AABox(x0, x1, y0, y1) == [xmin |-> x0, xmax |-> x1, ymin |-> y0, ymax |-> y1]

(* AABox::add_square1 on AABox::empty: the unit square centred at point *)
Square1(point) ==
    AABox(RSub(point[1], Half), RAdd(point[1], Half),
          RSub(point[2], Half), RAdd(point[2], Half))

BoxUnion(a, b) ==
    AABox(RMin(a.xmin, b.xmin), RMax(a.xmax, b.xmax),
          RMin(a.ymin, b.ymin), RMax(a.ymax, b.ymax))

corners(b) ==
    <<V(b.xmin, b.ymin), V(b.xmax, b.ymin), V(b.xmax, b.ymax), V(b.xmin, b.ymax)>>

compute_sq_radius(b) ==
    LET c == corners(b)
        m(i) == vec2_square_len(c[i])
    IN  RMax(RMax(m(1), m(2)), RMax(m(3), m(4)))

Leaf == [kind |-> "Leaf", left |-> 0, right |-> 0]
Internal(l, r) == [kind |-> "Internal", left |-> l, right |-> r]

(* tree::Tree: nodes in an array, root at index 0.  BuildNodes lays the   *)
(* subtree of cells out from index base: a leaf per cell, an internal    *)
(* node over the two halves, its bounds the union of its children's.     *)
RECURSIVE BuildNodes(_, _)
BuildNodes(cells, base) ==
    IF Len(cells) = 1
    THEN <<[bounds |-> Square1(cells[1]), content |-> Leaf]>>
    ELSE LET h == Len(cells) \div 2
             l == BuildNodes(SubSeq(cells, 1, h), base + 1)
             r == BuildNodes(SubSeq(cells, h + 1, Len(cells)), base + 1 + Len(l))
         IN  <<[bounds |-> BoxUnion(l[1].bounds, r[1].bounds),
                content |-> Internal(base + 1, base + 1 + Len(l))]>> \o l \o r

BuildTree(cells) ==
    IF cells = <<>> THEN <<>>
    ELSE LET ns == BuildNodes(cells, 0)
         IN  [i \in 0 .. Len(ns) - 1 |-> ns[i + 1]]

Leaves(tree) == {i \in DOMAIN tree : tree[i].content.kind = "Leaf"}

-----------------------------------------------------------------------------
(* find_collision_tree_ray                                                  *)

NoHit == [some |-> FALSE, t |-> NaN, point |-> <<NaN, NaN>>]
SomeHit(t, p) == [some |-> TRUE, t |-> t, point |-> p]

NoT == [some |-> FALSE, t |-> NaN]

(* tmin = match tmin { Some(m) => Some(m.min(t)), None => Some(t) } *)
KeepMin(tmin, t) ==
    IF tmin.some THEN [some |-> TRUE, t |-> FMin(tmin.t, t)]
    ELSE [some |-> TRUE, t |-> t]

(* One side of the box: t = (side - pos[a]) / dir[a]; the side counts when *)
(* t > 0.0 and the other coordinate at t lies within [lo, hi].             *)
SideT(side, p, d) == FDiv(RSub(side, p), d)

SideHit(t, lo, hi, q, e) ==
    /\ FLt(Fin(R0), t)
    /\ FLe(Fin(lo), FAdd(q, FMul(e, t)))
    /\ FLe(FAdd(q, FMul(e, t)), Fin(hi))

Side(tmin, side, p, d, lo, hi, q, e) ==
    IF SideHit(SideT(side, p, d), lo, hi, q, e)
    THEN KeepMin(tmin, SideT(side, p, d))
    ELSE tmin

(* lines 418-458: the four sides of one node's bounds, in the code's order *)
NodeTmin(b, p, dir) ==
    LET m1 == Side(NoT, b.xmin, p[1], dir[1], b.ymin, b.ymax, p[2], dir[2])
        m2 == Side(m1, b.xmax, p[1], dir[1], b.ymin, b.ymax, p[2], dir[2])
        m3 == Side(m2, b.ymin, p[2], dir[2], b.xmin, b.xmax, p[1], dir[1])
        m4 == Side(m3, b.ymax, p[2], dir[2], b.xmin, b.xmax, p[1], dir[1])
    IN  m4

(* divisions one node visit evaluates with a zero divisor: two per axis *)
NodeZeroDivs(dir) ==
    (IF dir[1] = R0 THEN 2 ELSE 0) + (IF dir[2] = R0 THEN 2 ELSE 0)

NearerFirst(r1, r2) ==
    IF ~r1.some THEN r2 ELSE r1

(* lines 466-473: the nearer of the two children's results *)
Nearer(r1, r2) ==
    IF ~r1.some THEN r2
    ELSE IF ~r2.some THEN r1
    ELSE IF FLt(r1.t, r2.t) THEN r1 ELSE r2

(* lines 460-479, with this node's tmin, its zero divisions, and (for an *)
(* internal node) its children's results                                *)
RayAt(tmin, z, p, dir) ==
    [hit |-> SomeHit(tmin.t, <<FAdd(p[1], FMul(dir[1], tmin.t)),
                               FAdd(p[2], FMul(dir[2], tmin.t))>>),
     zdivs |-> z]
RayBoth(l, r, z) == [hit |-> Nearer(l.hit, r.hit), zdivs |-> z + l.zdivs + r.zdivs]

(* The result and, beside it, zdivs: how many divisions by a zero          *)
(* direction component the call evaluated.                                 *)
RECURSIVE find_collision_tree_ray_(_, _, _, _)
find_collision_tree_ray_(p, dir, tree, idx) ==
    IF ~NodeTmin(tree[idx].bounds, p, dir).some
    THEN [hit |-> NoHit, zdivs |-> NodeZeroDivs(dir)]
    ELSE IF tree[idx].content.kind = "Internal"
    THEN RayBoth(find_collision_tree_ray_(p, dir, tree, tree[idx].content.left),
                 find_collision_tree_ray_(p, dir, tree, tree[idx].content.right),
                 NodeZeroDivs(dir))
    ELSE RayAt(NodeTmin(tree[idx].bounds, p, dir), NodeZeroDivs(dir), p, dir)

find_collision_tree_ray(p, dir, tree) == find_collision_tree_ray_(p, dir, tree, 0)

(* --- the raycast applied to drawn inputs --- *)

RayCells ==
    { <<VI(0, 0)>>,
      <<VI(0, 0), VI(1, 0)>>,
      <<VI(1, 0), VI(0, 0)>>,
      <<VI(0, 0), VI(2, 0)>>,
      <<VI(0, 0), VI(1, 1)>>,
      <<VI(0, 0), VI(1, 0), VI(0, 1)>>,
      <<VI(0, 0), VI(0, 1), VI(1, 0), VI(1, 1)>> }
RayCoord == {I(-5), I(-1), R(-1, 2), R0, R(1, 2), I(1), I(3)}
RayDirCoord == {I(-1), R0, R(1, 2), I(1)}

NotCalled == [called |-> FALSE, hit |-> NoHit, zdivs |-> 0]

RayInit ==
    /\ ray \in [cells : RayCells, pos : RayCoord \X RayCoord,
                dir : RayDirCoord \X RayDirCoord]
    /\ rayRes = NotCalled

RayQuiet ==
    /\ ray = [cells |-> <<VI(0, 0)>>, pos |-> VI(0, 0), dir |-> VI(0, 0)]
    /\ rayRes = NotCalled

RayCast ==
    /\ ~rayRes.called
    /\ LET r == find_collision_tree_ray(ray.pos, ray.dir, BuildTree(ray.cells))
       IN  rayRes' = [called |-> TRUE, hit |-> r.hit, zdivs |-> r.zdivs]
    /\ UNCHANGED <<ray, worldVars, inputVars, serverVars>>

-----------------------------------------------------------------------------
(* The Input resource (src/src/input.rs)                                    *)

Press == {"UP", "PRESSED", "KEPT"}

(* Press::update *)
Press_update(p) == IF p = "PRESSED" THEN "KEPT" ELSE p

(* impl Default for Input: buttons indexed 0..2 as in the source *)
Input_default ==
    [movement |-> VI(0, 0), rotation |-> R0, fire |-> "UP",
     mouse |-> VI(0, 0), buttons |-> [i \in 0 .. 2 |-> "UP"]]

(* an update that forgets the last button *)
Input_update_two(in) ==
    [in EXCEPT !.fire = Press_update(@),
               !.buttons[0] = Press_update(@),
               !.buttons[1] = Press_update(@)]

(* Input::update *)
Input_update(in) ==
    [in EXCEPT !.fire = Press_update(@),
               !.buttons[0] = Press_update(@),
               !.buttons[1] = Press_update(@),
               !.buttons[2] = Press_update(@)]

(* operations on the Input in one behaviour *)
MaxInputOps == 4

InputOp(op) == [prev |-> input, op |-> op, n |-> inputLog.n + 1]

InputNew ==
    /\ input = Input_default
    /\ inputLog = [prev |-> Input_default, op |-> "new", n |-> 0]

InputQuiet == InputNew

(* Input::update, called once per frame *)
InputUpdate ==
    /\ inputLog.n < MaxInputOps
    /\ input' = Input_update(input)
    /\ inputLog' = InputOp("update")
    /\ UNCHANGED <<worldVars, rayVars, serverVars>>

(* the owner of the resource writes a key through the pub fields: key 0 is *)
(* fire, keys 1..3 the buttons; down makes it PRESSED, up makes it UP      *)
KeyEvent ==
    /\ inputLog.n < MaxInputOps
    /\ \E k \in 0 .. 3, p \in {"PRESSED", "UP"} :
          input' = IF k = 0 THEN [input EXCEPT !.fire = p]
                   ELSE [input EXCEPT !.buttons[k - 1] = p]
    /\ inputLog' = InputOp("key")
    /\ UNCHANGED <<worldVars, rayVars, serverVars>>

(* the owner writes the axes and the pointer *)
AxesEvent ==
    /\ inputLog.n < MaxInputOps
    /\ \E m \in {VI(0, 1), VI(-1, 0)}, r \in {R1, I(-1)} :
          input' = [input EXCEPT !.movement = m, !.rotation = r,
                                 !.mouse = vec2_scale(m, Half)]
    /\ inputLog' = InputOp("axes")
    /\ UNCHANGED <<worldVars, rayVars, serverVars>>

-----------------------------------------------------------------------------
(* The server's event loop (src/server/src/main.rs)                         *)

(* const TIME_STEP: f32 = 0.080; *)
TIME_STEP == R(80, 1000)

(* to_secs, of a Duration given in milliseconds *)
to_secs(ms) == R(ms, 1000)

(* a catch-up that runs one step at most *)
RECURSIVE CatchUpOnce(_, _)
CatchUpOnce(t, calls) ==
    IF RLt(TIME_STEP, t) /\ calls = <<>>
    THEN CatchUpOnce(RSub(t, TIME_STEP), Append(calls, TIME_STEP))
    ELSE [timer |-> t, calls |-> calls]

(* lines 37-40: while timer > TIME_STEP { game.update(TIME_STEP); .. };   *)
(* calls collects the argument of each game.update                        *)
RECURSIVE CatchUp(_, _)
CatchUp(t, calls) ==
    IF RLt(TIME_STEP, t)
    THEN CatchUp(RSub(t, TIME_STEP), Append(calls, TIME_STEP))
    ELSE [timer |-> t, calls |-> calls]

(* lines 30-36: the accumulator before the catch-up loop *)
Accumulate(t, dt) ==
    IF RLt(Half, dt) THEN RMul(I(5), TIME_STEP) ELSE RAdd(t, dt)

(* frames of the loop in one behaviour *)
MaxFrame == 3

(* how far SystemTime::now() is from the reading before, in ms: the clock *)
(* may stand still, advance, jump forward or go backward                  *)
ClockSteps == {-100, 0, 30, 80, 170, 500, 600}

FirstReading == 1000

ServerNew ==
    /\ previous = FirstReading
    /\ timer = R0
    /\ frame = [n |-> 0, branch |-> "new", dt |-> R0, before |-> R0,
                calls |-> <<>>, seen |-> {}]

ServerQuiet == ServerNew

FrameDone(branch, dt, calls) ==
    [n |-> frame.n + 1, branch |-> branch, dt |-> dt, before |-> timer,
     calls |-> calls, seen |-> frame.seen \cup {branch}]

(* lines 26-58: one iteration of the loop, the clock reading now *)
ServerTurn(now) ==
    /\ IF now >= previous
       THEN /\ timer' = CatchUp(Accumulate(timer, to_secs(now - previous)),
                                <<>>).timer
            /\ frame' = FrameDone(IF RLt(Half, to_secs(now - previous))
                                  THEN "jump" ELSE "ok",
                                  to_secs(now - previous),
                                  CatchUp(Accumulate(timer,
                                                     to_secs(now - previous)),
                                          <<>>).calls)
       ELSE /\ timer' = R0
            /\ frame' = FrameDone("back", R0, <<>>)
    /\ previous' = now

ServerFrame ==
    /\ frame.n < MaxFrame
    /\ \E d \in ClockSteps : ServerTurn(previous + d)
    /\ UNCHANGED <<worldVars, rayVars, inputVars>>

-----------------------------------------------------------------------------
(* Components                                                               *)

Entity == {1, 2, 3}

(* crate::Role, by the two questions physics.rs asks of it *)
Role(auth, net) == [authoritative |-> auth, networked |-> net]

RSqrtUp(a) == RAdd(RSqrt(a), R(1, 100))

RECURSIVE SumInertia(_)
SumInertia(cells) ==
    IF cells = <<>> THEN R0
    ELSE RAdd(RAdd(R(1, 6), vec2_square_len(Head(cells))), SumInertia(Tail(cells)))

(* crate::blocks::Blocky built from its cells (unit mass per cell): the    *)
(* derived mass, inertia, bounding radius and tree.                        *)
Blocky(cells) ==
    [blocks |-> cells,
     mass |-> I(Len(cells)),
     inertia |-> SumInertia(cells),
     radius |-> IF cells = <<>> THEN R0
                ELSE RSqrtUp(compute_sq_radius(BuildTree(cells)[0].bounds)),
     tree |-> BuildTree(cells)]

NoMass == [some |-> FALSE, v |-> R0]
SomeMass(m) == [some |-> TRUE, v |-> m]

(* DetectCollision {bounding_box, radius, mass, ignore}; ignore 0 is None *)
DetectCollision(box, mass, ignore) ==
    [bounding_box |-> box, radius |-> RSqrtUp(compute_sq_radius(box)),
     mass |-> mass, ignore |-> ignore]

SmallBox == AABox(R(-1, 5), R(1, 5), R(-1, 5), R(1, 5))
NoCollider == DetectCollision(SmallBox, NoMass, 0)

Components(hasPos, hasB, b, hasC, c, repl) ==
    [hasPos |-> hasPos, hasBlocky |-> hasB, blocky |-> b,
     hasCollision |-> hasC, collision |-> c, replicated |-> repl]

Position(p, rot) == [pos |-> p, rot |-> rot]
Velocity(v, rot) == [vel |-> v, rot |-> rot]

(* HitEffect::Collision(f32, Entity) | HitEffect::Explosion(f32) *)
Collision(x, e) == [kind |-> "Collision", mag |-> x, other |-> e]
Explosion(x) == [kind |-> "Explosion", mag |-> x, other |-> 0]

(* Hit {rel_location, effect}; at: the clock tick it was recorded in *)
Hit(loc, effect, at) == [rel_location |-> loc, effect |-> effect, at |-> at]

RECURSIVE SortedSeq(_)
SortedSeq(S) ==
    IF S = {} THEN <<>>
    ELSE LET m == CHOOSE x \in S : \A y \in S : x <= y
         IN  <<m>> \o SortedSeq(S \ {m})

(* (&*entities, &pos, &blocky).join(): ascending entity order *)
JoinBlocky(al, cp) ==
    SortedSeq({e \in al : cp[e].hasPos /\ cp[e].hasBlocky})
(* (&*entities, &pos, &collision).join() *)
JoinCollision(al, cp) ==
    SortedSeq({e \in al : cp[e].hasPos /\ cp[e].hasCollision})

-----------------------------------------------------------------------------
(* sat::find for unrotated boxes, and the tree descents                     *)

NoContact ==
    [some |-> FALSE, location |-> VI(0, 0), direction |-> VI(0, 0),
     depth |-> R0, leaves |-> <<0, 0>>]

(* the box of an entity at p, in world space *)
WorldBox(p, box) ==
    AABox(RAdd(p.pos[1], box.xmin), RAdd(p.pos[1], box.xmax),
          RAdd(p.pos[2], box.ymin), RAdd(p.pos[2], box.ymax))

Intersection(a, b) ==
    AABox(RMax(a.xmin, b.xmin), RMin(a.xmax, b.xmax),
          RMax(a.ymin, b.ymin), RMin(a.ymax, b.ymax))

(* +1 when a's centre on the axis is not below b's, else -1 *)
Side1(a0, a1, b0, b1) == IF RLt(RAdd(a0, a1), RAdd(b0, b1)) THEN I(-1) ELSE I(1)

sat_contact(a, b, i, ox, oy) ==
    IF RLe(ox, R0) \/ RLe(oy, R0) THEN NoContact
    ELSE [some |-> TRUE,
          location |-> V(RMul(RAdd(i.xmin, i.xmax), Half),
                         RMul(RAdd(i.ymin, i.ymax), Half)),
          direction |-> IF RLe(ox, oy)
                        THEN V(Side1(a.xmin, a.xmax, b.xmin, b.xmax), R0)
                        ELSE V(R0, Side1(a.ymin, a.ymax, b.ymin, b.ymax)),
          depth |-> IF RLe(ox, oy) THEN ox ELSE oy,
          leaves |-> <<0, 0>>]

sat_overlap(a, b, i) ==
    sat_contact(a, b, i, RSub(i.xmax, i.xmin), RSub(i.ymax, i.ymin))

(* The two boxes in world space overlap on both axes; the contact is on    *)
(* the axis of least penetration (x before y), direction pushing the first *)
(* box out, depth the overlap on that axis, location the centre of the     *)
(* overlap.                                                                *)
sat_find(pos1, box1, pos2, box2) ==
    sat_overlap(WorldBox(pos1, box1), WorldBox(pos2, box2),
                Intersection(WorldBox(pos1, box1), WorldBox(pos2, box2)))

(* the second result before the first *)
OrLater(first, second) == IF second.some THEN second ELSE first

(* match first { None => second, r => r } *)
OrElse(first, second) == IF first.some THEN first ELSE second

AtLeaves(hit, idx1, idx2) ==
    IF hit.some THEN [hit EXCEPT !.leaves = <<idx1, idx2>>] ELSE NoContact

RECURSIVE find_collision_tree(_, _, _, _, _, _)
find_collision_tree(pos1, tree1, idx1, pos2, tree2, idx2) ==
    IF ~sat_find(pos1, tree1[idx1].bounds, pos2, tree2[idx2].bounds).some
    THEN NoContact
    ELSE IF tree1[idx1].content.kind = "Internal"
    THEN OrElse(find_collision_tree(pos1, tree1, tree1[idx1].content.left,
                                    pos2, tree2, idx2),
                find_collision_tree(pos1, tree1, tree1[idx1].content.right,
                                    pos2, tree2, idx2))
    ELSE IF tree2[idx2].content.kind = "Internal"
    THEN OrElse(find_collision_tree(pos1, tree1, idx1,
                                    pos2, tree2, tree2[idx2].content.left),
                find_collision_tree(pos1, tree1, idx1,
                                    pos2, tree2, tree2[idx2].content.right))
    ELSE AtLeaves(sat_find(pos1, tree1[idx1].bounds, pos2, tree2[idx2].bounds),
                  idx1, idx2)

RECURSIVE find_collision_tree_box(_, _, _, _, _)
find_collision_tree_box(pos1, box1, pos2, tree2, idx2) ==
    IF ~sat_find(pos1, box1, pos2, tree2[idx2].bounds).some
    THEN NoContact
    ELSE IF tree2[idx2].content.kind = "Internal"
    THEN OrElse(find_collision_tree_box(pos1, box1, pos2, tree2,
                                        tree2[idx2].content.left),
                find_collision_tree_box(pos1, box1, pos2, tree2,
                                        tree2[idx2].content.right))
    ELSE AtLeaves(sat_find(pos1, box1, pos2, tree2[idx2].bounds), 0, idx2)

-----------------------------------------------------------------------------
(* Hits, store_collision, handle_collision                                  *)

(* f32::sin_cos; every Position of the collision world has rot = 0 *)
sin_cos(rot) == CASE rot = R0 -> <<R0, R1>>

(* Hits::record: push on the entity's hits_vec, creating it if absent *)
Hits_record(hs, ent, hit) == [hs EXCEPT ![ent] = Append(@, hit)]

store_collision(p, hit, effect, ent, hs, at) ==
    LET sc == sin_cos(p.rot)
        s == sc[1]
        c == sc[2]
        x == RSub(hit[1], p.pos[1])
        y == RSub(hit[2], p.pos[2])
        rel_loc == V(RAdd(RMul(x, c), RMul(y, s)),
                     RAdd(RMul(RNeg(x), s), RMul(y, c)))
    IN  Hits_record(hs, ent, Hit(rel_loc, effect, at))

FullyElastic == R1

(* const ELASTICITY: f32 = 0.6; *)
ELASTICITY == R(6, 10)

cross(a, b) == V(RMul(a[2], b), RMul(RNeg(a[1]), b))

cross_dot2(a, b) ==
    LET c == RSub(RMul(a[1], b[2]), RMul(a[2], b[1]))
    IN  RMul(c, c)

(* a[0] * b[1] - a[1] * b[0] *)
Perp(a, b) == RSub(RMul(a[1], b[2]), RMul(a[2], b[1]))

PushSameBias(depth) == RSub(RMul(depth, Half), R(1, 20))

(* hit.depth * 0.5 + 0.05 *)
PushOut(depth) == RAdd(RMul(depth, Half), R(1, 20))

(* lines 529-555 *)
Impulse(p, o_p, v, o_v, blk, o_blk, hit) ==
    LET rap == vec2_sub(hit.location, p.pos)
        rbp == vec2_sub(hit.location, o_p.pos)
        vab1 == vec2_sub(vec2_add(v.vel, cross(rap, RNeg(v.rot))),
                         vec2_add(o_v.vel, cross(rbp, RNeg(o_v.rot))))
        n == hit.direction
    IN  RDiv(RMul(RNeg(RAdd(R1, ELASTICITY)), vec2_dot(vab1, n)),
             RAdd(RAdd(RDiv(R1, blk.mass), RDiv(R1, o_blk.mass)),
                  RAdd(RDiv(cross_dot2(rap, n), blk.inertia),
                       RDiv(cross_dot2(rbp, n), o_blk.inertia))))

(* One of the two blocks of lines 557-610: record the hit in the body's    *)
(* frame, move the body by push along the contact direction, change its    *)
(* velocity by imp.                                                        *)
ApplyTo(st, e, other, hit, mag, push, imp, r, blk, at) ==
    LET p == st.pos[e]
        v == st.vel[e]
    IN  [st EXCEPT
            !.hits = store_collision(p, hit.location, Collision(mag, other),
                                     e, st.hits, at),
            !.pos[e].pos = vec2_add(p.pos, vec2_scale(hit.direction, push)),
            !.vel[e].vel = vec2_add(v.vel,
                                    vec2_scale(hit.direction, RDiv(imp, blk.mass))),
            !.vel[e].rot = RAdd(v.rot,
                                RDiv(RMul(imp, Perp(r, hit.direction)),
                                     blk.inertia))]

DirtyOp(e) == [op |-> "insert", ent |-> e, comp |-> "Dirty"]
DeleteOp(e) == [op |-> "insert", ent |-> e, comp |-> "Delete"]

MarkDirty(st, ent, net) ==
    IF net THEN [st EXCEPT !.lazy = Append(@, DirtyOp(ent))] ELSE st

(* lines 557-614, with the impulse and the two offsets computed before *)
Respond(ent, o_ent, st, blk, o_blk, hit, net, at, impulse, rap, rbp) ==
    MarkDirty(ApplyTo(ApplyTo(st, ent, o_ent, hit, impulse,
                              PushOut(hit.depth), impulse, rap, blk, at),
                      o_ent, ent, hit, impulse, RNeg(PushOut(hit.depth)),
                      RNeg(impulse), rbp, o_blk, at),
              ent, net)

(* st: [pos, vel, hits, lazy]; cp: the Blocky storage; net: the feature *)
handle_collision(ent, o_ent, st, cp, hit, net, at) ==
    Respond(ent, o_ent, st, cp[ent].blocky, cp[o_ent].blocky, hit, net, at,
            Impulse(st.pos[ent], st.pos[o_ent], st.vel[ent], st.vel[o_ent],
                    cp[ent].blocky, cp[o_ent].blocky, hit),
            vec2_sub(hit.location, st.pos[ent].pos),
            vec2_sub(hit.location, st.pos[o_ent].pos))

-----------------------------------------------------------------------------
(* SysCollision::run                                                        *)

Event(ev, a, b, res, hit) == [ev |-> ev, a |-> a, b |-> b, res |-> res, hit |-> hit]

TooFar(p1, p2, rad) ==
    RLt(RMul(rad, rad), vec2_square_len(vec2_sub(p1.pos, p2.pos)))

Tested(e1, e2, hit) ==
    Event("test", e1, e2, IF hit.some THEN "hit" ELSE "miss", hit)

PairBreakSelf(e2, e1) == e2 > e1

(* if e2 >= e1 { break; } *)
PairBreak(e2, e1) == e2 >= e1

(* lines 257-279: the inner loop for one e1, from the k-th joined entity;  *)
(* acc collects one "test" event per pair that reaches the loop body.      *)
RECURSIVE DetectInner(_, _, _, _, _, _)
DetectInner(e1, js, k, ps, cp, acc) ==
    IF k > Len(js) THEN acc
    ELSE LET e2 == js[k]
             b1 == cp[e1].blocky
             b2 == cp[e2].blocky
         IN  IF PairBreak(e2, e1) THEN acc
             ELSE IF b1.blocks = <<>> \/ b2.blocks = <<>>
             THEN DetectInner(e1, js, k + 1, ps, cp,
                              Append(acc, Event("test", e1, e2, "empty", NoContact)))
             ELSE IF TooFar(ps[e1], ps[e2], RAdd(b1.radius, b2.radius))
             THEN DetectInner(e1, js, k + 1, ps, cp,
                              Append(acc, Event("test", e1, e2, "far", NoContact)))
             ELSE DetectInner(e1, js, k + 1, ps, cp,
                              Append(acc, Tested(e1, e2,
                                                 find_collision_tree(ps[e1], b1.tree, 0,
                                                                     ps[e2], b2.tree, 0))))

(* lines 255-280: the outer loop *)
RECURSIVE DetectOuter(_, _, _, _, _)
DetectOuter(js, i, ps, cp, acc) ==
    IF i > Len(js) THEN acc
    ELSE DetectOuter(js, i + 1, ps, cp, DetectInner(js[i], js, 1, ps, cp, acc))

Detect(al, ps, cp) == DetectOuter(JoinBlocky(al, cp), 1, ps, cp, <<>>)

IsContact(ev) == ev.ev = "test" /\ ev.res = "hit"

(* the contacts in the reverse of the order found *)
RECURSIVE ContactsReversed(_)
ContactsReversed(events) ==
    IF events = <<>> THEN <<>>
    ELSE ContactsReversed(Tail(events))
         \o (IF IsContact(Head(events)) THEN <<Head(events)>> ELSE <<>>)

(* block_hits: the contacts pushed, in the order found *)
Contacts(events) == SelectSeq(events, IsContact)

NoClearPrologue(r, hs) ==
    IF ~r.authoritative THEN [abort |-> TRUE, hits |-> hs]
    ELSE [abort |-> FALSE, hits |-> hs]

ClearFirstPrologue(r, hs) ==
    IF ~r.authoritative THEN [abort |-> TRUE, hits |-> [e \in DOMAIN hs |-> <<>>]]
    ELSE [abort |-> FALSE, hits |-> [e \in DOMAIN hs |-> <<>>]]

(* lines 250-252: assert!(role.authoritative()); hits.clear(); *)
Prologue(r, hs) ==
    IF ~r.authoritative THEN [abort |-> TRUE, hits |-> hs]
    ELSE [abort |-> FALSE, hits |-> [e \in DOMAIN hs |-> <<>>]]

(* a response that moves the collider instead of the composite *)
SimpleContactOwn(st, e1, e2, ps, cp, hit, at) ==
    IF cp[e1].collision.mass.some
    THEN [st EXCEPT
            !.hits = store_collision(ps[e1], hit.location,
                                     Collision(cp[e2].blocky.mass, e2),
                                     e1, st.hits, at),
            !.vel[e1].vel = vec2_sub(st.vel[e1].vel,
                                     vec2_scale(st.vel[e2].vel,
                                                cp[e2].blocky.mass))]
    ELSE [st EXCEPT !.hits = store_collision(ps[e1], hit.location,
                                             Collision(cp[e2].blocky.mass, e2),
                                             e1, st.hits, at)]

(* lines 317-339: a simple collider e1 found in contact with composite e2 *)
SimpleContact(st, e1, e2, ps, cp, hit, at) ==
    LET col1 == cp[e1].collision
        blocky2 == cp[e2].blocky
        vel1 == st.vel[e1].vel
        vel2 == st.vel[e2].vel
        momentum == RMul(vec2_len(vec2_sub(vel1, vel2)), blocky2.mass)
        hs == store_collision(ps[e1], hit.location, Collision(momentum, e2),
                              e1, st.hits, at)
        impulse == vec2_scale(vel1, col1.mass.v)
        rel == vec2_sub(hit.location, ps[e2].pos)
    IN  IF col1.mass.some
        THEN [st EXCEPT
                !.hits = hs,
                !.vel[e2].vel = vec2_add(vel2,
                                         vec2_scale(impulse, RDiv(R1, blocky2.mass))),
                !.vel[e2].rot = RAdd(st.vel[e2].rot,
                                     RDiv(Perp(rel, impulse), blocky2.inertia))]
        ELSE [st EXCEPT !.hits = hs]

(* if let Some(hit) = find_collision_tree_box(..) { .. } *)
SimpleTest(st, e1, e2, ps, cp, hit, at) ==
    IF hit.some
    THEN [SimpleContact(st, e1, e2, ps, cp, hit, at)
          EXCEPT !.simple = Append(@, <<e1, e2>>)]
    ELSE st

(* lines 301-341: the inner loop over the simple colliders, for one e2 *)
RECURSIVE SimpleInner(_, _, _, _, _, _, _)
SimpleInner(st, e2, cs, k, ps, cp, at) ==
    IF k > Len(cs) THEN st
    ELSE LET e1 == cs[k]
             col1 == cp[e1].collision
             blocky2 == cp[e2].blocky
         IN  IF col1.ignore = e2
             THEN SimpleInner(st, e2, cs, k + 1, ps, cp, at)
             ELSE IF TooFar(ps[e1], ps[e2], RAdd(col1.radius, blocky2.radius))
             THEN SimpleInner(st, e2, cs, k + 1, ps, cp, at)
             ELSE SimpleInner(SimpleTest(st, e1, e2, ps, cp,
                                         find_collision_tree_box(
                                             ps[e1], col1.bounding_box,
                                             ps[e2], blocky2.tree, 0),
                                         at),
                              e2, cs, k + 1, ps, cp, at)

(* lines 297-342: the outer loop over the composites *)
RECURSIVE SimpleOuter(_, _, _, _, _, _, _)
SimpleOuter(st, bs, i, cs, ps, cp, at) ==
    IF i > Len(bs) THEN st
    ELSE IF cp[bs[i]].blocky.blocks = <<>>
    THEN SimpleOuter(st, bs, i + 1, cs, ps, cp, at)
    ELSE SimpleOuter(SimpleInner(st, bs[i], cs, 1, ps, cp, at),
                     bs, i + 1, cs, ps, cp, at)

(* st.simple collects the (simple, composite) contacts found, in order *)
SimplePhase(st, al, ps, cp, at) ==
    SimpleOuter(st, JoinBlocky(al, cp), 1, JoinCollision(al, cp), ps, cp, at)

-----------------------------------------------------------------------------
(* The world and its operations                                             *)

(* collision passes run, and calls of the other systems (affect_area,    *)
(* delete_entity) made, in one behaviour                                 *)
MaxPass == 2
MaxCalls == 1

Cells1 == <<VI(0, 0)>>
Cells2 == <<VI(0, 0), VI(1, 0)>>

Block(cells) == Components(TRUE, TRUE, Blocky(cells), FALSE, NoCollider, FALSE)
Simple(mass, ignore) ==
    Components(TRUE, FALSE, Blocky(<<>>), TRUE,
               DetectCollision(SmallBox, mass, ignore), FALSE)
Both(cells, mass, ignore) ==
    Components(TRUE, TRUE, Blocky(cells), TRUE,
               DetectCollision(SmallBox, mass, ignore), FALSE)
Inert == Components(FALSE, FALSE, Blocky(<<>>), FALSE, NoCollider, FALSE)

NoPosition(cells) == Components(FALSE, TRUE, Blocky(cells), FALSE, NoCollider, FALSE)

(* what the three entities may be made of when the world is built *)
Worlds ==
    { <<Both(Cells1, SomeMass(Half), 0), Block(Cells1), Block(Cells1)>>,
      <<Block(Cells2), Block(Cells1), Block(Cells1)>>,
      <<Block(Cells2), Simple(SomeMass(Half), 0), Simple(NoMass, 1)>>,
      <<Both(Cells1, SomeMass(Half), 0), Simple(SomeMass(Half), 0), Block(Cells1)>>,
      <<Block(Cells2), Block(Cells1), Block(<<>>)>>,
      <<Both(Cells1, SomeMass(Half), 0), Block(Cells1), NoPosition(Cells1)>> }

Places(e) ==
    CASE e = 1 -> {VI(0, 0)}
      [] e = 2 -> {V(R(9, 10), R0), V(R(4, 5), R(1, 5))}
      [] OTHER -> {V(R(-7, 10), R0), VI(3, 0)}

Speeds(e) ==
    CASE e = 1 -> {VI(1, 0)}
      [] e = 2 -> {VI(-1, 0)}
      [] OTHER -> {V(R0, R(-1, 2))}

(* the process's role and whether the build has the network feature:     *)
(* standalone, server and client of a network build, and a build without *)
Configs ==
    { <<Role(TRUE, FALSE), TRUE>>, <<Role(TRUE, TRUE), TRUE>>,
      <<Role(FALSE, TRUE), TRUE>>, <<Role(TRUE, FALSE), FALSE>> }

NoHits == [e \in Entity |-> <<>>]
Snapshot == [pos |-> pos, vel |-> vel, hits |-> hits, lazy |-> lazy, alive |-> alive]
Last(op, a, b) == [op |-> op, a |-> a, b |-> b]

(* the world as constructed: role and build c, components k, and the     *)
(* Position and Velocity storages ps and vs                              *)
WorldAt(c, k, ps, vs) ==
    /\ role = c[1]
    /\ network = c[2]
    /\ alive = Entity
    /\ comp = [e \in Entity |-> [k[e] EXCEPT !.replicated = (e # 2)]]
    /\ pos = ps
    /\ vel = vs
    /\ hits = NoHits
    /\ lazy = <<>>
    /\ netDirty = {}
    /\ netDelete = {}
    /\ pc = "idle"
    /\ block_hits = <<>>
    /\ log = <<>>
    /\ prevLog = <<>>
    /\ clock = 0
    /\ passClock = 0
    /\ passes = 0
    /\ affects = 0
    /\ deletes = 0
    /\ start = [pos |-> ps, vel |-> vs, netDirty |-> {}]
    /\ prev = [pos |-> ps, vel |-> vs, hits |-> NoHits, lazy |-> <<>>,
               alive |-> Entity]
    /\ last = Last("new", 0, 0)

WorldInit ==
    \E c \in Configs, k \in Worlds :
        \E p \in [Entity -> UNION {Places(e) : e \in Entity}],
           v \in [Entity -> UNION {Speeds(e) : e \in Entity}] :
            /\ \A e \in Entity : p[e] \in Places(e) /\ v[e] \in Speeds(e)
            /\ WorldAt(c, k, [e \in Entity |-> Position(p[e], R0)],
                       [e \in Entity |-> Velocity(v[e], R0)])

(* SysCollision::run up to the end of the detection loop (lines 250-280).  *)
(* On a replica the assertion fails and the process aborts.                *)
RunBegin ==
    /\ pc = "idle"
    /\ passes < MaxPass
    /\ LET pro == Prologue(role, hits)
           events == Detect(alive, pos, comp)
       IN  IF pro.abort
           THEN /\ pc' = "aborted"
                /\ hits' = pro.hits
                /\ last' = Last("run_abort", 0, 0)
                /\ UNCHANGED <<block_hits, log, prevLog, clock, passClock,
                               passes, start>>
           ELSE /\ pc' = "resolve"
                /\ hits' = pro.hits
                /\ log' = events
                /\ prevLog' = log
                /\ block_hits' = Contacts(events)
                /\ clock' = clock + 1
                /\ passClock' = clock + 1
                /\ passes' = passes + 1
                /\ start' = [pos |-> pos, vel |-> vel, netDirty |-> netDirty]
                /\ last' = Last("detect", 0, 0)
    /\ prev' = Snapshot
    /\ UNCHANGED <<role, network, alive, comp, pos, vel, lazy, netDirty,
                   netDelete, affects, deletes, rayVars, inputVars,
                   serverVars>>

(* lines 283-294: one iteration of the loop over block_hits *)
RunResolve ==
    /\ pc = "resolve"
    /\ block_hits # <<>>
    /\ LET c == Head(block_hits)
           st == handle_collision(c.a, c.b,
                                  [pos |-> pos, vel |-> vel, hits |-> hits,
                                   lazy |-> lazy],
                                  comp, c.hit, network, passClock)
       IN  /\ pos' = st.pos
           /\ vel' = st.vel
           /\ hits' = st.hits
           /\ lazy' = st.lazy
           /\ log' = Append(log, Event("resolve", c.a, c.b, "done", c.hit))
           /\ last' = Last("resolve", c.a, c.b)
    /\ block_hits' = Tail(block_hits)
    /\ prev' = Snapshot
    /\ UNCHANGED <<role, network, alive, comp, netDirty, netDelete, pc, prevLog,
                   clock, passClock, passes, affects, deletes, start, rayVars, inputVars,
                   serverVars>>

RECURSIVE SimpleEvents(_)
SimpleEvents(pairs) ==
    IF pairs = <<>> THEN <<>>
    ELSE <<Event("simple", Head(pairs)[1], Head(pairs)[2], "hit", NoContact)>>
         \o SimpleEvents(Tail(pairs))

(* lines 296-343: the composite-vs-simple loops, then run returns *)
RunSimple ==
    /\ pc = "resolve"
    /\ block_hits = <<>>
    /\ LET st == SimplePhase([pos |-> pos, vel |-> vel, hits |-> hits,
                              lazy |-> lazy, simple |-> <<>>],
                             alive, pos, comp, passClock)
       IN  /\ vel' = st.vel
           /\ hits' = st.hits
           /\ lazy' = st.lazy
           /\ log' = log \o SimpleEvents(st.simple)
    /\ pc' = "idle"
    /\ prev' = Snapshot
    /\ last' = Last("simple", 0, 0)
    /\ UNCHANGED <<role, network, alive, comp, pos, netDirty, netDelete,
                   block_hits, prevLog, clock, passClock, passes, affects,
                   deletes, start, rayVars, inputVars,
                   serverVars>>

(* lines 616-632 *)
RECURSIVE affect_area(_, _, _, _, _, _, _, _)
affect_area(js, i, ps, cp, hs, center, radius, effect) ==
    IF i > Len(js) THEN hs
    ELSE LET ent == js[i]
             dist == vec2_square_len(vec2_sub(ps[ent].pos, center))
             rad == RAdd(radius, cp[ent].blocky.radius)
         IN  affect_area(js, i + 1, ps, cp,
                         IF RLt(dist, RMul(rad, rad))
                         THEN store_collision(ps[ent], center, effect, ent, hs,
                                              clock + 1)
                         ELSE hs,
                         center, radius, effect)

Centers == {VI(0, 0)}

AffectArea ==
    /\ pc = "idle"
    /\ affects + deletes < MaxCalls
    /\ \E center \in Centers :
          /\ hits' = affect_area(JoinBlocky(alive, comp), 1, pos, comp, hits,
                                 center, R1, Explosion(R1))
          /\ last' = Last("affect_area", 0, 0)
    /\ affects' = affects + 1
    /\ clock' = clock + 1
    /\ prev' = Snapshot
    /\ UNCHANGED <<role, network, alive, comp, pos, vel, lazy, netDirty,
                   netDelete, pc, block_hits, log, prevLog, passClock, passes,
                   deletes, start, rayVars, inputVars,
                   serverVars>>

(* a deletion that is immediate whatever the role *)
delete_entity_now(r, net, al, lz, entity) ==
    IF net /\ ~r.authoritative THEN [abort |-> TRUE, alive |-> al, lazy |-> lz]
    ELSE [abort |-> FALSE, alive |-> al \ {entity}, lazy |-> lz]

(* lines 73-93.  The result: whether the assertion failed, the live        *)
(* entities and the deferred queue afterwards.                             *)
delete_entity(r, net, al, lz, entity) ==
    IF net
    THEN IF ~r.authoritative THEN [abort |-> TRUE, alive |-> al, lazy |-> lz]
         ELSE IF r.networked
         THEN [abort |-> FALSE, alive |-> al, lazy |-> Append(lz, DeleteOp(entity))]
         ELSE [abort |-> FALSE, alive |-> al \ {entity}, lazy |-> lz]
    ELSE [abort |-> FALSE, alive |-> al \ {entity}, lazy |-> lz]

DeleteEntity ==
    /\ pc = "idle"
    /\ affects + deletes < MaxCalls
    /\ \E e \in alive :
          LET d == delete_entity(role, network, alive, lazy, e)
          IN  /\ alive' = d.alive
              /\ lazy' = d.lazy
              /\ pc' = IF d.abort THEN "aborted" ELSE pc
              /\ last' = Last(IF d.abort THEN "delete_abort" ELSE "delete_entity",
                              e, 0)
    /\ deletes' = deletes + 1
    /\ prev' = Snapshot
    /\ UNCHANGED <<role, network, comp, pos, vel, hits, netDirty, netDelete,
                   block_hits, log, prevLog, clock, passClock, passes, affects,
                   start, rayVars, inputVars,
                   serverVars>>

RECURSIVE Inserted(_, _, _)
Inserted(lz, c, al) ==
    IF lz = <<>> THEN {}
    ELSE (IF Head(lz).comp = c /\ Head(lz).ent \in al THEN {Head(lz).ent} ELSE {})
         \cup Inserted(Tail(lz), c, al)

(* World::maintain between systems: the deferred queue is applied *)
Maintain ==
    /\ pc = "idle"
    /\ lazy # <<>>
    /\ netDirty' = netDirty \cup Inserted(lazy, "Dirty", alive)
    /\ netDelete' = netDelete \cup Inserted(lazy, "Delete", alive)
    /\ lazy' = <<>>
    /\ prev' = Snapshot
    /\ last' = Last("maintain", 0, 0)
    /\ UNCHANGED <<role, network, alive, comp, pos, vel, hits, pc, block_hits,
                   log, prevLog, clock, passClock, passes, affects, deletes,
                   start, rayVars, inputVars,
                   serverVars>>

-----------------------------------------------------------------------------
(* handle_collision on given contacts: the pass stands just after          *)
(* detection, with one contact between entities 2 and 1 in block_hits.     *)

ShapeInputs == {Cells1, Cells2}
PlaceInputs == {V(R(9, 10), R0), V(R(4, 5), R(1, 5)), V(R0, R(9, 10))}
SpeedInputs == {VI(1, 0), VI(-1, 0), VI(0, 1), V(R(-3, 10), R(-2, 5))}
SpinInputs == {R0, R1}
NormalInputs == {VI(1, 0), VI(-1, 0), VI(0, 1), V(R(3, 5), R(4, 5))}
DepthInputs == {R(1, 10), R(1, 5)}
(* the contact point: half way between the centres, or off that line *)
LocationInputs(p) == {vec2_scale(p, Half), vec2_add(vec2_scale(p, Half), V(R0, R(1, 4)))}

Contact(loc, n, d) ==
    [some |-> TRUE, location |-> loc, direction |-> n, depth |-> d,
     leaves |-> <<0, 0>>]

ImpulseWorld(k, ps, vs, c) ==
    /\ role = Role(TRUE, FALSE)
    /\ network = TRUE
    /\ alive = Entity
    /\ comp = k
    /\ pos = ps
    /\ vel = vs
    /\ hits = NoHits
    /\ lazy = <<>>
    /\ netDirty = {}
    /\ netDelete = {}
    /\ pc = "resolve"
    /\ block_hits = <<c>>
    /\ log = <<c>>
    /\ prevLog = <<>>
    /\ clock = 1
    /\ passClock = 1
    /\ passes = 1
    /\ affects = 0
    /\ deletes = 0
    /\ start = [pos |-> ps, vel |-> vs, netDirty |-> {}]
    /\ prev = [pos |-> ps, vel |-> vs, hits |-> NoHits, lazy |-> <<>>,
               alive |-> Entity]
    /\ last = Last("detect", 0, 0)

ImpulseInit ==
    \E s1 \in ShapeInputs, s2 \in ShapeInputs, p \in PlaceInputs,
       v1 \in SpeedInputs, v2 \in SpeedInputs, w \in SpinInputs,
       n \in NormalInputs, d \in DepthInputs :
        \E loc \in LocationInputs(p) :
            ImpulseWorld(<<Block(s1), Block(s2), Inert>>,
                         [e \in Entity |->
                             Position(IF e = 2 THEN p ELSE VI(0, 0), R0)],
                         [e \in Entity |->
                             Velocity(IF e = 1 THEN v1 ELSE v2,
                                      IF e = 1 THEN w ELSE R0)],
                         Event("test", 2, 1, "hit", Contact(loc, n, d)))

InitImpulse == ImpulseInit /\ RayQuiet /\ InputQuiet /\ ServerQuiet

NextImpulse ==
    \/ RunResolve
    \/ RunSimple

SpecImpulse == InitImpulse /\ [][NextImpulse]_vars

-----------------------------------------------------------------------------
(* SysSimu                                                                  *)

(* std::f32::consts::PI, to three decimals *)
PI == R(3142, 1000)
TwoPi == RMul(I(2), PI)

(* the integer part of q, towards zero *)
Trunc(q) == Sgn(q[1]) * (Abs(q[1]) \div q[2])

(* a % m on f32: the remainder of the division truncated towards zero, so  *)
(* it has the sign of a                                                    *)
Rem(a, m) == RSub(a, RMul(m, I(Trunc(RDiv(a, m)))))

(* lines 214-218: the loop body for one entity *)
Integrate(p, v, dt) ==
    [pos |-> vec2_add(p.pos, vec2_scale(v.vel, dt)),
     rot |-> Rem(RAdd(p.rot, RMul(v.rot, dt)), TwoPi)]

MaxStep == 2
(* DeltaTime: the server's TIME_STEP, and a longer frame *)
TimeSteps == {R(80, 1000), Half}

(* SysSimu::run *)
SysSimuRun ==
    /\ pc = "idle"
    /\ clock < MaxStep
    /\ \E dt \in TimeSteps :
          pos' = [e \in Entity |->
                     IF e \in alive /\ comp[e].hasPos
                     THEN Integrate(pos[e], vel[e], dt) ELSE pos[e]]
    /\ clock' = clock + 1
    /\ prev' = Snapshot
    /\ last' = Last("simu", 0, 0)
    /\ UNCHANGED <<role, network, alive, comp, vel, hits, lazy, netDirty,
                   netDelete, pc, block_hits, log, prevLog, passClock, passes,
                   affects, deletes, start, rayVars, inputVars,
                   serverVars>>

Headings == {R0, R1, I(6)}
Spins == {I(-80), I(-1), R0, I(1), I(80)}

SimuInit ==
    \E r1 \in Headings, r2 \in Headings, w1 \in Spins, w2 \in Spins :
        WorldAt(<<Role(TRUE, FALSE), FALSE>>,
                <<Block(Cells1), Simple(NoMass, 0), NoPosition(Cells1)>>,
                [e \in Entity |->
                    Position(VI(e, 0), IF e = 1 THEN r1 ELSE r2)],
                [e \in Entity |->
                    Velocity(V(Half, R0), IF e = 1 THEN w1 ELSE w2)])

InitSimu == SimuInit /\ RayQuiet /\ InputQuiet /\ ServerQuiet
NextSimu == SysSimuRun
SpecSimu == InitSimu /\ [][NextSimu]_vars

-----------------------------------------------------------------------------
(* The raycast on drawn inputs, in a world at rest                          *)

WorldQuiet ==
    WorldAt(<<Role(TRUE, FALSE), FALSE>>,
            <<Block(Cells1), Block(Cells1), Inert>>,
            [e \in Entity |-> Position(VI(3 * e, 0), R0)],
            [e \in Entity |-> Velocity(VI(0, 0), R0)])

InitRay == WorldQuiet /\ RayInit /\ InputQuiet /\ ServerQuiet
NextRay == RayCast
SpecRay == InitRay /\ [][NextRay]_vars

-----------------------------------------------------------------------------
(* find_collision_tree on drawn trees: two composites, entity 2 at the      *)
(* origin and entity 1 at a drawn offset, tested by the detection loop      *)

TreeOffsets ==
    { V(R(9, 10), R0), V(Half, Half), V(R(9, 5), R(1, 5)), V(R(-3, 5), R(4, 5)),
      V(R0, R(19, 10)), V(R(5, 2), R0), VI(1, 0) }

TreeInit ==
    \E c1 \in RayCells, c2 \in RayCells, p \in TreeOffsets :
        WorldAt(<<Role(TRUE, FALSE), FALSE>>,
                <<Block(c1), Block(c2), Inert>>,
                [e \in Entity |-> Position(IF e = 1 THEN p ELSE VI(0, 0), R0)],
                [e \in Entity |-> Velocity(VI(0, 0), R0)])

InitTree == TreeInit /\ RayQuiet /\ InputQuiet /\ ServerQuiet
NextTree ==
    \/ RunBegin
    \/ RunResolve
    \/ RunSimple
SpecTree == InitTree /\ [][NextTree]_vars

-----------------------------------------------------------------------------
(* The Input resource and the server loop, each in a world at rest          *)

InitInput == WorldQuiet /\ RayQuiet /\ InputNew /\ ServerQuiet
NextInput ==
    \/ InputUpdate
    \/ KeyEvent
    \/ AxesEvent
SpecInput == InitInput /\ [][NextInput]_vars

InitServer == WorldQuiet /\ RayQuiet /\ InputQuiet /\ ServerNew
NextServer == ServerFrame
SpecServer == InitServer /\ [][NextServer]_vars

Init == WorldInit /\ RayQuiet /\ InputQuiet /\ ServerQuiet

Next ==
    \/ RunBegin
    \/ RunResolve
    \/ RunSimple
    \/ AffectArea
    \/ DeleteEntity
    \/ Maintain

Spec == Init /\ [][Next]_vars

-----------------------------------------------------------------------------
(* Properties of the collision pass                                         *)

AllHits == {<<e, i>> \in Entity \X (1..8) : i \in DOMAIN hits[e]}

(* C1: SysCollision::run aborts whenever the role is not authoritative,    *)
(* before any effect: on a replica no pass ever starts, and the aborted    *)
(* call leaves the Hits ledger, every Position and Velocity and the        *)
(* deferred queue exactly as they were.                                    *)
C1_ReplicaAbortsUntouched ==
    ~role.authoritative =>
        /\ passes = 0 /\ log = <<>> /\ pc # "resolve"
        /\ last.op \notin {"detect", "resolve", "simple"}
        /\ last.op = "run_abort" =>
              /\ pc = "aborted"
              /\ hits = prev.hits
              /\ pos = prev.pos
              /\ vel = prev.vel
              /\ lazy = prev.lazy
              /\ alive = prev.alive

(* a replica whose ledger held hits (from affect_area) when run aborted *)
C1_Witness ==
    /\ ~role.authoritative
    /\ last.op = "run_abort"
    /\ pc = "aborted"
    /\ \E e \in Entity : prev.hits[e] # <<>> /\ hits[e] = prev.hits[e]

(* C2: when a collision pass completes (and all through the pass), every   *)
(* Hit stored on every entity was recorded during that pass: none recorded *)
(* by an earlier pass or by affect_area before it survives.                *)
C2_HitsOfThisPass ==
    (pc = "resolve" \/ last.op = "simple") =>
        \A x \in AllHits : hits[x[1]][x[2]].at = passClock

(* a pass that completed with hits of its own, run after an affect_area    *)
(* that had recorded a hit                                                 *)
C2_Witness ==
    /\ last.op = "simple"
    /\ affects = 1 /\ passes = 1 /\ passClock = 2
    /\ AllHits # {}

Visits == {i \in DOMAIN log : log[i].ev = "test"}
VisitsOf(a, b) == {i \in Visits : {log[i].a, log[i].b} = {a, b}}
Joined == {e \in alive : comp[e].hasPos /\ comp[e].hasBlocky}

(* C3: in one collision pass, over the composites with a Position, each    *)
(* unordered pair of distinct entities reaches the test exactly once, no   *)
(* entity is paired with itself, and the contacts collected are one per    *)
(* pair at most.                                                           *)
C3_EachPairOnce ==
    last.op = "detect" =>
        /\ \A i \in Visits : log[i].a # log[i].b /\ {log[i].a, log[i].b} \subseteq Joined
        /\ \A a \in Joined, b \in Joined :
              a # b => Cardinality(VisitsOf(a, b)) = 1
        /\ \A a \in Entity : VisitsOf(a, a) = {}
        /\ \A a \in Entity, b \in Entity :
              Cardinality({i \in DOMAIN block_hits :
                              {block_hits[i].a, block_hits[i].b} = {a, b}}) <= 1

(* three composites with a Position: three pairs, and a contact among them *)
C3_Witness ==
    /\ last.op = "detect"
    /\ Cardinality(Joined) = 3
    /\ Cardinality(Visits) = 3
    /\ block_hits # <<>>

Composite(e) == comp[e].hasBlocky /\ comp[e].hasPos /\ comp[e].blocky.blocks # <<>>
SimpleHits == {i \in DOMAIN log : log[i].ev = "simple"}

(* C4 as stated: the composite-vs-simple phase leaves the Velocity of      *)
(* every entity carrying a DetectCollision unchanged, whatever else it     *)
(* carries.                                                                *)
C4_ColliderUnchanged ==
    last.op = "simple" =>
        \A e \in Entity : comp[e].hasCollision => vel[e] = prev.vel[e]

(* C4 amended: the phase leaves unchanged the Velocity of every entity     *)
(* that carries a DetectCollision and no Blocky, with or without a mass;   *)
(* a Velocity that changes is that of a composite found in contact with a  *)
(* collider that declares a mass.                                          *)
C4_SimpleOnlyUnchanged ==
    last.op = "simple" =>
        /\ \A e \in Entity :
              comp[e].hasCollision /\ ~comp[e].hasBlocky => vel[e] = prev.vel[e]
        /\ \A e \in Entity :
              vel[e] # prev.vel[e] =>
                  /\ Composite(e)
                  /\ \E i \in SimpleHits :
                        log[i].b = e /\ comp[log[i].a].collision.mass.some
        /\ pos = prev.pos

(* a collider without Blocky, with a mass, hit a composite and changed the *)
(* composite's velocity                                                    *)
C4_Witness ==
    /\ last.op = "simple"
    /\ \E i \in SimpleHits :
          /\ ~comp[log[i].a].hasBlocky
          /\ comp[log[i].a].collision.mass.some
          /\ vel[log[i].b] # prev.vel[log[i].b]
          /\ vel[log[i].a] = prev.vel[log[i].a]

Queued(e) == lazy = Append(prev.lazy, DeleteOp(e)) /\ alive = prev.alive /\ e \in alive
Gone(e) == e \notin alive /\ alive = prev.alive \ {e} /\ lazy = prev.lazy

(* C5 as stated: under the Authoritative role with networking active the   *)
(* delete is queued if the entity is itself networked and immediate        *)
(* otherwise; in a build without networking it is always immediate.        *)
C5_ByEntity ==
    last.op = "delete_entity" =>
        IF network /\ role.networked
        THEN IF comp[last.a].replicated THEN Queued(last.a) ELSE Gone(last.a)
        ELSE Gone(last.a)

(* C5 amended: under the Authoritative role with networking active the     *)
(* delete is queued for every entity, networked or not, and the entity     *)
(* stays alive while the intent is in the queue; when the role is not      *)
(* networked, or the build has no networking, the deletion is immediate.   *)
C5_ByRole ==
    /\ last.op = "delete_entity" =>
          IF network /\ role.networked THEN Queued(last.a) ELSE Gone(last.a)
    /\ \A i \in DOMAIN lazy : lazy[i] \in {DeleteOp(e) : e \in alive} \cup
                                          {DirtyOp(e) : e \in Entity}

(* on the server a delete of an entity that is not networked was queued *)
C5_Witness ==
    /\ last.op = "delete_entity"
    /\ network /\ role.networked /\ role.authoritative
    /\ ~comp[last.a].replicated
    /\ Queued(last.a)

Resolved(lg) == {i \in DOMAIN lg : lg[i].ev = "resolve"}
SameContact(x, y) == x.a = y.a /\ x.b = y.b /\ x.hit.leaves = y.hit.leaves
Collected == {j \in DOMAIN log : IsContact(log[j])}
Involves(x, e) == x.a = e \/ x.b = e
Alone(lg, i) ==
    \A j \in Resolved(lg) :
        j # i => ~Involves(lg[j], lg[i].a) /\ ~Involves(lg[j], lg[i].b)

(* C7 as stated: a contact resolved by one pass is not collected again by  *)
(* the next pass run with no integration in between.                       *)
C7_NeverAgain ==
    (last.op = "detect" /\ passes >= 2) =>
        \A i \in Resolved(prevLog) :
            \A j \in Collected : ~SameContact(prevLog[i], log[j])

(* C7 amended: a contact resolved by one pass is not collected again by    *)
(* the next pass run with no integration in between, provided neither of   *)
(* its two entities took part in another contact resolved in that pass.    *)
C7_NotAgainWhenAlone ==
    (last.op = "detect" /\ passes >= 2) =>
        \A i \in Resolved(prevLog) :
            Alone(prevLog, i) =>
                \A j \in Collected : ~SameContact(prevLog[i], log[j])

(* the second pass tested again a pair whose only contact the first pass   *)
(* had resolved                                                            *)
C7_Witness ==
    /\ last.op = "detect" /\ passes = 2
    /\ \E i \in Resolved(prevLog) :
          /\ Alone(prevLog, i)
          /\ \E j \in Visits : log[j].a = prevLog[i].a /\ log[j].b = prevLog[i].b
                               /\ log[j].res \in {"miss", "far"}


-----------------------------------------------------------------------------
(* Properties of handle_collision                                           *)

ResolvedHit == log[Len(log)].hit
Centres == vec2_sub(prev.pos[last.b].pos, prev.pos[last.a].pos)
Momentum(vs) ==
    vec2_add(vec2_scale(vs[last.a].vel, comp[last.a].blocky.mass),
             vec2_scale(vs[last.b].vel, comp[last.b].blocky.mass))

(* equal masses, velocities +v and -v along the contact normal, no         *)
(* angular velocity, contact point on the line joining the centres         *)
HeadOn ==
    /\ last.op = "resolve"
    /\ comp[last.a].blocky.mass = comp[last.b].blocky.mass
    /\ prev.vel[last.a].vel = vec2_scale(prev.vel[last.b].vel, I(-1))
    /\ Perp(prev.vel[last.a].vel, ResolvedHit.direction) = R0
    /\ prev.vel[last.a].rot = R0 /\ prev.vel[last.b].rot = R0
    /\ Perp(vec2_sub(ResolvedHit.location, prev.pos[last.a].pos), Centres) = R0

Bounced ==
    /\ vel[last.a].vel = vec2_scale(prev.vel[last.a].vel, R(-6, 10))
    /\ vel[last.b].vel = vec2_scale(prev.vel[last.b].vel, R(-6, 10))

(* C6 as stated: from a head-on state handle_collision leaves the two      *)
(* bodies with velocities -e*v and +e*v, e = 0.6, and the sum of mass      *)
(* times velocity as it was.                                               *)
C6_HeadOnBounce ==
    HeadOn => Bounced /\ Momentum(vel) = Momentum(prev.vel)

(* C6 amended: the same, provided the contact normal is parallel to the    *)
(* line joining the centres; without that proviso the sum of mass times    *)
(* velocity is still as it was.                                            *)
C6_HeadOnBounceAlongCentres ==
    HeadOn =>
        /\ Momentum(vel) = Momentum(prev.vel)
        /\ Perp(ResolvedHit.direction, Centres) = R0 => Bounced

(* a head-on contact with the normal along the centres, at speed 1 *)
C6_Witness ==
    /\ HeadOn
    /\ Perp(ResolvedHit.direction, Centres) = R0
    /\ prev.vel[last.a].vel = VI(-1, 0)
    /\ vel[last.a].vel = V(R(3, 5), R0)
    /\ vel[last.b].vel = V(R(-3, 5), R0)


-----------------------------------------------------------------------------
(* Properties of the raycast                                                *)

RayTree == BuildTree(ray.cells)

(* the slab test on one leaf alone *)
LeafCast(i) ==
    find_collision_tree_ray(ray.pos, ray.dir,
                            [j \in {0} |-> RayTree[i]]).hit
LeafHits == {LeafCast(i) : i \in {j \in Leaves(RayTree) : LeafCast(j).some}}
NearestLeafHit ==
    IF LeafHits = {} THEN NoHit
    ELSE CHOOSE h \in LeafHits : \A g \in LeafHits : ~FLt(g.t, h.t)

UnitCellRay == [cells |-> <<VI(0, 0)>>, pos |-> VI(-5, 0), dir |-> VI(1, 0)]

(* C8: find_collision_tree_ray returns the nearest hit over the whole      *)
(* tree: the minimum over the leaves of the hit the slab test gives on     *)
(* that leaf alone, None when no leaf is hit; on the unit cell at the      *)
(* origin from (-5,0) towards (1,0) it is distance 4.5 at (-0.5,0).        *)
C8_NearestOverLeaves ==
    rayRes.called =>
        /\ rayRes.hit = NearestLeafHit
        /\ ray = UnitCellRay =>
              rayRes.hit = SomeHit(Fin(R(9, 2)), <<Fin(R(-1, 2)), Fin(R0)>>)

(* a tree of three cells or more in which the ray hits several leaves at   *)
(* different distances                                                     *)
C8_Witness ==
    /\ rayRes.called
    /\ Len(ray.cells) >= 3
    /\ Cardinality(LeafHits) >= 2
    /\ rayRes.hit.some

FiniteHit(h) == h.some => IsFinite(h.t) /\ IsFinite(h.point[1]) /\ IsFinite(h.point[2])

(* C10 as stated: with a zero direction component the raycast evaluates no *)
(* division by zero, counts no slab of that axis, and returns no           *)
(* non-finite distance or point.                                           *)
C10_DivisionsGuarded ==
    rayRes.called =>
        /\ rayRes.zdivs = 0
        /\ FiniteHit(rayRes.hit)

-----------------------------------------------------------------------------
(* Properties of SysSimu                                                    *)

(* C9 as stated: after every integration step the heading of every entity  *)
(* with Position and Velocity lies in [0, 2*pi).                           *)
C9_HeadingWrapped ==
    last.op = "simu" =>
        \A e \in Entity :
            comp[e].hasPos => RLe(R0, pos[e].rot) /\ RLt(pos[e].rot, TwoPi)


-----------------------------------------------------------------------------
(* Properties of Input::update                                              *)

(* fire and the three buttons, as a function over 0..3 *)
Keys(in) == [k \in 0 .. 3 |-> IF k = 0 THEN in.fire ELSE in.buttons[k - 1]]

(* C11: after every Input::update none of fire and the three buttons is    *)
(* PRESSED: each key that was PRESSED is KEPT, each key that was UP or     *)
(* KEPT is as it was, and movement, rotation and mouse are unchanged.      *)
C11_PressedOneFrame ==
    inputLog.op = "update" =>
        /\ \A k \in 0 .. 3 :
              /\ Keys(input)[k] # "PRESSED"
              /\ Keys(inputLog.prev)[k] = "PRESSED" => Keys(input)[k] = "KEPT"
              /\ Keys(inputLog.prev)[k] # "PRESSED" =>
                    Keys(input)[k] = Keys(inputLog.prev)[k]
        /\ input.movement = inputLog.prev.movement
        /\ input.rotation = inputLog.prev.rotation
        /\ input.mouse = inputLog.prev.mouse

(* an update met the last button PRESSED, a key KEPT from a frame before   *)
(* and a key UP                                                            *)
C11_Witness ==
    /\ inputLog.op = "update"
    /\ inputLog.prev.buttons[2] = "PRESSED" /\ input.buttons[2] = "KEPT"
    /\ \E k \in 0 .. 3 : Keys(inputLog.prev)[k] = "KEPT" /\ Keys(input)[k] = "KEPT"
    /\ \E k \in 0 .. 3 : Keys(inputLog.prev)[k] = "UP" /\ Keys(input)[k] = "UP"


-----------------------------------------------------------------------------
(* Properties of the order of the pass                                      *)

IsResolve(ev) == ev.ev = "resolve"
Bare(evs) == [i \in DOMAIN evs |-> <<evs[i].a, evs[i].b, evs[i].hit>>]
Rank(ev) == CASE ev.ev = "test" -> 1 [] ev.ev = "resolve" -> 2 [] OTHER -> 3
FromStart(ev) ==
    find_collision_tree(start.pos[ev.a], comp[ev.a].blocky.tree, 0,
                        start.pos[ev.b], comp[ev.b].blocky.tree, 0)

(* C12: the composite-vs-composite phase is two-phase.  When detection     *)
(* ends no Position or Velocity has changed and no hit is recorded, and    *)
(* every contact is the one computed from the positions at the start of    *)
(* the pass; the contacts are then resolved once each in the order found   *)
(* (those resolved so far followed by those still to resolve are the       *)
(* contacts collected), all before the composite-vs-simple phase.          *)
C12_CollectThenResolve ==
    /\ last.op = "detect" =>
          /\ pos = prev.pos /\ vel = prev.vel /\ hits = NoHits
          /\ pos = start.pos /\ vel = start.vel
          /\ block_hits = SelectSeq(log, IsContact)
    /\ (pc = "resolve" \/ last.op = "simple") =>
          /\ \A i \in DOMAIN log :
                IsContact(log[i]) => log[i].hit = FromStart(log[i])
          /\ Bare(SelectSeq(log, IsResolve)) \o Bare(block_hits)
                = Bare(SelectSeq(log, IsContact))
          /\ \A i \in DOMAIN log, j \in DOMAIN log :
                i < j => Rank(log[i]) <= Rank(log[j])
    /\ last.op = "simple" => block_hits = <<>>

(* a pass that collected two contacts, resolved both, moved bodies, and    *)
(* then found a simple collider in contact                                 *)
C12_Witness ==
    /\ last.op = "simple"
    /\ Len(SelectSeq(log, IsResolve)) = 2
    /\ pos # start.pos
    /\ \E i \in DOMAIN log : log[i].ev = "simple"


-----------------------------------------------------------------------------
(* Properties of find_collision_tree                                        *)

(* the leaves of a subtree, depth-first, left before right *)
RECURSIVE LeafOrder(_, _)
LeafOrder(tree, idx) ==
    IF tree[idx].content.kind = "Leaf" THEN <<idx>>
    ELSE LeafOrder(tree, tree[idx].content.left)
         \o LeafOrder(tree, tree[idx].content.right)

(* the narrow-phase test on leaf i of the first tree and leaf j of the     *)
(* second                                                                  *)
Narrow(ev, i, j) ==
    AtLeaves(sat_find(start.pos[ev.a], comp[ev.a].blocky.tree[i].bounds,
                      start.pos[ev.b], comp[ev.b].blocky.tree[j].bounds), i, j)

(* the first pair of leaves that passes, from the m-th leaf of the first   *)
(* tree and the n-th of the second, in the orders l1 and l2                *)
RECURSIVE FirstPair(_, _, _, _, _)
FirstPair(ev, l1, l2, m, n) ==
    IF m > Len(l1) THEN NoContact
    ELSE IF n > Len(l2) THEN FirstPair(ev, l1, l2, m + 1, 1)
    ELSE IF Narrow(ev, l1[m], l2[n]).some THEN Narrow(ev, l1[m], l2[n])
    ELSE FirstPair(ev, l1, l2, m, n + 1)

TreeTests == {i \in DOMAIN log : log[i].ev = "test" /\ log[i].res \in {"hit", "miss"}}

(* C13: find_collision_tree from the two roots returns a contact exactly   *)
(* when some pair of leaves passes the narrow-phase test, and then the     *)
(* contact of the first such pair, walking the first tree's leaves         *)
(* depth-first and for each the second tree's; for two single-cell trees   *)
(* it is the narrow-phase result on the two cells.                         *)
C13_FirstLeafPair ==
    \A i \in TreeTests :
        /\ log[i].hit = FirstPair(log[i],
                                  LeafOrder(comp[log[i].a].blocky.tree, 0),
                                  LeafOrder(comp[log[i].b].blocky.tree, 0), 1, 1)
        /\ log[i].hit.some <=>
              \E m \in Leaves(comp[log[i].a].blocky.tree),
                 n \in Leaves(comp[log[i].b].blocky.tree) :
                  Narrow(log[i], m, n).some
        /\ (Len(comp[log[i].a].blocky.blocks) = 1
            /\ Len(comp[log[i].b].blocky.blocks) = 1) =>
              log[i].hit = Narrow(log[i], 0, 0)

(* two trees of three cells or more in which several pairs of leaves pass  *)
(* and the one returned is not the pair of the two first leaves            *)
C13_Witness ==
    \E i \in TreeTests :
        /\ log[i].hit.some
        /\ Len(comp[log[i].a].blocky.blocks) >= 3
        /\ Len(comp[log[i].b].blocky.blocks) >= 3
        /\ Cardinality({mn \in Leaves(comp[log[i].a].blocky.tree)
                                 \X Leaves(comp[log[i].b].blocky.tree) :
                           Narrow(log[i], mn[1], mn[2]).some}) >= 2
        /\ log[i].hit.leaves # <<LeafOrder(comp[log[i].a].blocky.tree, 0)[1],
                                 LeafOrder(comp[log[i].b].blocky.tree, 0)[1]>>


-----------------------------------------------------------------------------
(* Properties of the dirty marks                                            *)

Pending(op) == \E i \in DOMAIN lazy : lazy[i] = op
Changed(e) == pos[e] # start.pos[e] \/ vel[e] # start.vel[e]

(* C14 as stated: with the networking feature, when a pass ends every      *)
(* entity whose Position or Velocity the pass changed has a dirty mark     *)
(* pending in the deferred queue, and during the pass no dirty mark is     *)
(* applied to the component storage.                                       *)
C14_ChangedAreDirty ==
    /\ (network /\ last.op = "simple") =>
          \A e \in Entity : Changed(e) => Pending(DirtyOp(e))
    /\ last.op \in {"detect", "resolve", "simple"} => netDirty = start.netDirty

-----------------------------------------------------------------------------
(* Properties of the server loop                                            *)

Steps(n) == RMul(I(n), R(80, 1000))

(* C15: after every frame of the server loop 0 <= timer <= TIME_STEP; a    *)
(* forward jump above 0.5 s restarts the accumulator from 5 steps, a       *)
(* backward jump sets it to 0 and runs no step, any other frame adds the   *)
(* elapsed time, and every game.update is called with TIME_STEP exactly.   *)
C15_AtMostOneStepLeft ==
    frame.branch # "new" =>
        /\ RLe(R0, timer) /\ RLe(timer, R(80, 1000))
        /\ \A i \in DOMAIN frame.calls : frame.calls[i] = R(80, 1000)
        /\ frame.branch = "back" => timer = R0 /\ frame.calls = <<>>
        /\ frame.branch = "jump" =>
              RAdd(timer, Steps(Len(frame.calls))) = Steps(5)
        /\ frame.branch = "ok" =>
              RAdd(timer, Steps(Len(frame.calls))) = RAdd(frame.before, frame.dt)

(* the loop has met a backward jump and a forward jump, and then a frame   *)
(* that ran two steps and left time in the accumulator                     *)
C15_Witness ==
    /\ frame.seen = {"ok", "jump", "back"}
    /\ frame.branch = "ok"
    /\ Len(frame.calls) = 2
    /\ RLt(R0, timer)


=============================================================================
